---- MODULE Spec2Model ----
(***************************************************************************)
(* A model of go-pdns: the pipebackend protocol engine (pipe/backend) and  *)
(* the dispatch router (pipe/dsl).                                         *)
(*                                                                         *)
(* A Go string is a sequence of symbols.  TAB, NL and CR stand for the     *)
(* bytes \t, \n and \r; every other symbol ("Q", "HELO", "example.com",    *)
(* a digit, ...) stands for a run of bytes that holds none of those three. *)
(***************************************************************************)
EXTENDS Integers, Sequences, FiniteSets, TLC

TAB == "TAB"
NL == "NL"
CR == "CR"
SP == " "

\* ---------------------------------------------------------------- bounds
\* Largest number of tab-separated data fields of a generated Q line.
MaxFields == 8
\* Largest number of replies a handler passed to Run returns.
MaxReplies == 2
\* Largest number of Register calls on one DSL instance.
MaxRegs == 3

\* ------------------------------------------------- package strings, strconv

SeqsUpTo(S, n) == UNION {[1..k -> S] : k \in 0..n}

RECURSIVE SplitAcc(_, _, _, _)
SplitAcc(s, sep, i, cur) ==
    IF i > Len(s) THEN <<cur>>
    ELSE IF s[i] = sep THEN <<cur>> \o SplitAcc(s, sep, i + 1, <<>>)
    ELSE SplitAcc(s, sep, i + 1, Append(cur, s[i]))

\* strings.Split(s, sep): always at least one part.
Split(s, sep) == SplitAcc(s, sep, 1, <<>>)

\* strings.SplitN(s, sep, 2): cut at the first sep, if there is one.
SplitN2(s, sep) ==
    IF \E i \in 1..Len(s) : s[i] = sep
    THEN LET i == CHOOSE j \in 1..Len(s) :
                     s[j] = sep /\ \A k \in 1..(j - 1) : s[k] # sep
         IN <<SubSeq(s, 1, i - 1), SubSeq(s, i + 1, Len(s))>>
    ELSE <<s>>

RECURSIVE TrimRight(_, _)
TrimRight(s, cutset) ==
    IF Len(s) > 0 /\ s[Len(s)] \in cutset
    THEN TrimRight(SubSeq(s, 1, Len(s) - 1), cutset)
    ELSE s

\* strings.Replace(s, old, new, -1) for one-symbol old and new.
Replace(s, old, new) == [i \in 1..Len(s) |-> IF s[i] = old THEN new ELSE s[i]]

RECURSIVE Join(_, _)
Join(parts, sep) ==
    IF Len(parts) = 0 THEN <<>>
    ELSE IF Len(parts) = 1 THEN parts[1]
    ELSE parts[1] \o <<sep>> \o Join(Tail(parts), sep)

Digits == <<"0", "1", "2", "3", "4", "5", "6", "7", "8", "9">>
IsDigit(c) == \E d \in 1..10 : Digits[d] = c
DigitVal(c) == (CHOOSE d \in 1..10 : Digits[d] = c) - 1

RECURSIVE DigitsVal(_, _)
DigitsVal(s, acc) ==
    IF Len(s) = 0 THEN acc ELSE DigitsVal(Tail(s), acc * 10 + DigitVal(s[1]))

\* strconv.Atoi: an optional sign, then one or more decimal digits.
Atoi(s) ==
    LET signed == Len(s) > 0 /\ s[1] \in {"+", "-"}
        body == IF signed THEN Tail(s) ELSE s
    IN IF Len(body) = 0 \/ \E i \in 1..Len(body) : ~IsDigit(body[i])
       THEN [ok |-> FALSE, val |-> 0]
       ELSE [ok |-> TRUE,
             val |-> IF signed /\ s[1] = "-" THEN 0 - DigitsVal(body, 0)
                     ELSE DigitsVal(body, 0)]

RECURSIVE ItoaPos(_)
ItoaPos(n) ==
    IF n < 10 THEN <<Digits[n + 1]>>
    ELSE ItoaPos(n \div 10) \o <<Digits[(n % 10) + 1]>>

\* strconv.Itoa
Itoa(n) == IF n < 0 THEN <<"-">> \o ItoaPos(0 - n) ELSE ItoaPos(n)

\* ------------------------------------------------------------ error values
NilErr == [nil |-> TRUE, msg |-> <<>>]
NewErr(m) == [nil |-> FALSE, msg |-> m]

\* ------------------------------------------------- pipe/backend/query.go

\* The zero Query with its ProtocolVersion set.
NewQuery(v) ==
    [ProtocolVersion |-> v, QName |-> <<>>, QClass |-> <<>>, QType |-> <<>>,
     Id |-> <<>>, RemoteIpAddress |-> <<>>, LocalIpAddress |-> <<>>,
     EdnsSubnetAddress |-> <<>>]

\* A plausible slip: two of the positional fields exchanged.
fromDataCommon_swapped(q, parts) ==
    [q EXCEPT !.QName = parts[1], !.QClass = parts[3], !.QType = parts[2],
              !.Id = parts[4], !.RemoteIpAddress = parts[5]]

\* Query.fromData, the fields common to all versions.
fromDataCommon(q, parts) ==
    [q EXCEPT !.QName = parts[1], !.QClass = parts[2], !.QType = parts[3],
              !.Id = parts[4], !.RemoteIpAddress = parts[5]]

\* Query.fromData: the query filled in, and the error.
fromData(q, data) ==
    LET parts == Split(data, TAB)
    IN CASE q.ProtocolVersion = 1 ->
              IF Len(parts) # 5
              THEN [q |-> q, err |-> NewErr(<<"v1 query should have 5 data parts">>)]
              ELSE [q |-> fromDataCommon(q, parts), err |-> NilErr]
         [] q.ProtocolVersion = 2 ->
              IF Len(parts) # 6
              THEN [q |-> q, err |-> NewErr(<<"v2 query should have 6 data parts">>)]
              ELSE [q |-> fromDataCommon([q EXCEPT !.LocalIpAddress = parts[6]], parts),
                    err |-> NilErr]
         [] q.ProtocolVersion = 3 ->
              IF Len(parts) # 7
              THEN [q |-> q, err |-> NewErr(<<"v3 query should have 7 data parts">>)]
              ELSE [q |-> fromDataCommon([q EXCEPT !.LocalIpAddress = parts[6],
                                                   !.EdnsSubnetAddress = parts[7]], parts),
                    err |-> NilErr]
         [] OTHER -> [q |-> q, err |-> NewErr(<<"Unknown protocol version in query">>)]

\* Query.String
Query_String(q) ==
    LET common == <<q.QName, q.QClass, q.QType, q.Id, q.RemoteIpAddress>>
    IN CASE q.ProtocolVersion = 1 ->
              [s |-> <<"Q", TAB>> \o Join(common, TAB) \o <<NL>>, err |-> NilErr]
         [] q.ProtocolVersion = 2 ->
              [s |-> <<"Q", TAB>> \o Join(common \o <<q.LocalIpAddress>>, TAB) \o <<NL>>,
               err |-> NilErr]
         [] q.ProtocolVersion = 3 ->
              [s |-> <<"Q", TAB>>
                       \o Join(common \o <<q.LocalIpAddress, q.EdnsSubnetAddress>>, TAB)
                       \o <<NL>>,
               err |-> NilErr]
         [] OTHER -> [s |-> <<>>, err |-> NewErr(<<"Unknown protocol version in query">>)]

\* ----------------------------------------------- pipe/backend/response.go

Response(v, scope, auth, qname, qclass, qtype, ttl, id, content) ==
    [ProtocolVersion |-> v, ScopeBits |-> scope, Auth |-> auth, QName |-> qname,
     QClass |-> qclass, QType |-> qtype, TTL |-> ttl, Id |-> id, Content |-> content]

\* Response.String
Response_String(r) ==
    CASE r.ProtocolVersion \in {1, 2} ->
           [s |-> <<"DATA", TAB>>
                    \o Join(<<r.QName, r.QClass, r.QType, r.TTL, r.Id, r.Content>>, TAB)
                    \o <<NL>>,
            err |-> NilErr]
      [] r.ProtocolVersion = 3 ->
           [s |-> <<"DATA", TAB>>
                    \o Join(<<r.ScopeBits, r.Auth, r.QName, r.QClass, r.QType, r.TTL,
                              r.Id, r.Content>>, TAB)
                    \o <<NL>>,
            err |-> NilErr]
      [] OTHER -> [s |-> <<>>, err |-> NewErr(<<"Unknown protocol version in response">>)]

\* ------------------------------------------------------------------ state
VARIABLES
    ProtocolVersion,  \* Backend.ProtocolVersion
    w,                \* Backend.io, the writer: [buf, out, err]
    pc,               \* where the engine is: "idle", or in Run "run" (about to read),
                      \* "fail", "data", "next" (a request answered), "returned", or "crashed"
    line,             \* Run: the request line being handled
    responses,        \* Run: responses
    err,              \* Run: err
    idx,              \* Run: the position of the range loop over responses
    ret,              \* what the last call to return returned: "none", "nil", "error"
    op,               \* history: the last call started, "none", "Negotiate", "Run"
    rd,               \* history: the result of the last ReadString
    verBefore,        \* history: ProtocolVersion when the last Negotiate was called
    negFailed,        \* history: some Negotiate call rejected what it read
    negFailedBefore,  \* history: negFailed when the last Negotiate was called
    called,           \* history: the callback was invoked for the current request
    hq,               \* history: the Query handed to the callback
    reqState,         \* history: "none", "pending", "answered", "aborted"
    failedBefore,     \* history: an earlier request of this Run was answered FAIL
    callbacks,        \* DSL.callbacks
    qtypeSort,        \* DSL.qtypeSort
    beforeCallback,   \* DSL.beforeCallback
    regLog,           \* history: the Register calls so far, in order
    beforeLog,        \* history: the arguments of the last two Before calls, in order
    lk                \* history: the last Lookup call and its result

bvars == <<ProtocolVersion, w, pc, line, responses, err, idx, ret, op, rd, verBefore,
           negFailed, negFailedBefore, called, hq, reqState, failedBefore>>
dvars == <<callbacks, qtypeSort, beforeCallback, regLog, beforeLog, lk>>
vars == <<bvars, dvars>>

\* --------------------------------------------------- the byte streams of New

\* bufio.Writer: WriteString buffers s; it fails when the writer has failed
\* before, or when the buffer overflows and the write behind it fails (ok = FALSE).
WriteString(wr, s, ok) ==
    IF wr.err \/ ~ok THEN [wr EXCEPT !.err = TRUE, !.buf = <<>>]
    ELSE [wr EXCEPT !.buf = @ \o s]

\* bufio.Writer.Flush: hands the buffer to the io.Writer; when that fails, only
\* the first k bytes got through and the error sticks.  Nothing is written from
\* the buffer of a writer that has failed, so the model empties it.
Flush(wr, ok, k) ==
    IF wr.err THEN wr
    ELSE IF ok THEN [buf |-> <<>>, out |-> wr.out \o wr.buf, err |-> FALSE]
    ELSE [buf |-> <<>>, out |-> wr.out \o SubSeq(wr.buf, 1, k), err |-> TRUE]

\* The bytes an io.Writer may accept of a failing flush of wr's buffer plus s.
Partial(wr, s) == {k \in {0, Len(wr.buf) + Len(s) - 1} : k >= 0}

ReadOk(l) == [data |-> l, err |-> "nil"]
ReadFailures ==
    {[data |-> <<>>, err |-> "EOF"], [data |-> <<"PING">>, err |-> "EOF"],
     [data |-> <<>>, err |-> "other"]}

\* ------------------------------------------------------------- Negotiate

Banner == <<"Testing Backend">>

HelloNumbers == {<<"1">>, <<"2">>, <<"3">>, <<"+", "2">>, <<"0", "3">>}
BadNumbers == {<<"0">>, <<"4">>, <<"-", "1">>, <<"1", "0">>, <<"x">>, <<>>, <<"2", "x">>, <<SP, "1">>}
LineEnds == {<<NL>>, <<CR, NL>>}

ValidHelloLines == {<<"HELO", TAB>> \o n \o e : n \in HelloNumbers, e \in LineEnds}
InvalidHelloLines ==
    {<<"HELO", TAB>> \o n \o <<NL>> : n \in BadNumbers}
      \cup {<<"HELO", NL>>, <<NL>>, <<"helo", TAB, "1", NL>>, <<"HELO", TAB, "1", TAB, "2", NL>>,
            <<"PING", NL>>, <<"HELO", SP, "1", NL>>, <<"Q", TAB, "1", NL>>}
HelloReads == {ReadOk(l) : l \in ValidHelloLines \cup InvalidHelloLines} \cup ReadFailures

\* A plausible slip: the upper end of the version range off by one.
VersionOk_upTo4(version, ok) == ~(version < 1 \/ version > 4 \/ ~ok)

\* Negotiate, the test of the version Atoi returned.
VersionOk(version, ok) == ~(version < 1 \/ version > 3 \/ ~ok)

\* Negotiate, from the line read to the version: the error, and the version.
NegotiateParse(hello) ==
    LET parts == Split(TrimRight(hello, {CR, NL}), TAB)
    IN IF Len(parts) # 2 \/ parts[1] # <<"HELO">>
       THEN [err |-> NewErr(<<"Bad hello from client">>), version |-> 0]
       ELSE LET a == Atoi(parts[2])
            IN IF ~VersionOk(a.val, a.ok)
               THEN [err |-> NewErr(<<"Unknown protocol version requested">>),
                     version |-> 0]
               ELSE [err |-> NilErr, version |-> a.val]

\* A plausible slip: the acknowledgement written before the hello is checked.
NegotiateWrite_early(wr, parsed, wok, fok, k) ==
    LET w1 == WriteString(wr, <<"OK", TAB>> \o Banner \o <<NL>>, wok)
    IN IF w1.err THEN w1 ELSE Flush(w1, fok, k)

\* Negotiate, the writer after the call.
NegotiateWrite(wr, parsed, wok, fok, k) ==
    IF ~parsed.err.nil THEN wr
    ELSE LET w1 == WriteString(wr, <<"OK", TAB>> \o Banner \o <<NL>>, wok)
         IN IF w1.err THEN w1 ELSE Flush(w1, fok, k)

\* The outcomes of the writes of one call: WriteString ok, Flush ok, and the
\* bytes a failing Flush lets through.
IOChoices(wr, s) ==
    {[wok |-> TRUE, fok |-> TRUE, k |-> 0], [wok |-> FALSE, fok |-> TRUE, k |-> 0]}
      \cup {[wok |-> TRUE, fok |-> FALSE, k |-> k] : k \in Partial(wr, s)}

\* The history variables of Run, as they are when no Run has read anything.
RunHistoryReset ==
    /\ line' = <<>>
    /\ responses' = <<>>
    /\ err' = NilErr
    /\ idx' = 1
    /\ called' = FALSE
    /\ hq' = NewQuery(0)
    /\ reqState' = "none"
    /\ failedBefore' = FALSE

Negotiate ==
    /\ pc = "idle"
    /\ \E r \in HelloReads :
         LET w0 == [w EXCEPT !.out = <<>>]
             readFailed == r.err # "nil"
             parsed == IF readFailed THEN [err |-> NewErr(<<r.err>>), version |-> 0]
                       ELSE NegotiateParse(r.data)
         IN \E io \in IF parsed.err.nil THEN IOChoices(w0, <<"OK", TAB>> \o Banner \o <<NL>>)
                      ELSE {[wok |-> TRUE, fok |-> TRUE, k |-> 0]} :
              LET w2 == NegotiateWrite(w0, parsed, io.wok, io.fok, io.k)
                  good == parsed.err.nil /\ ~w2.err
              IN /\ w' = w2
                 /\ ProtocolVersion' = IF good THEN parsed.version ELSE ProtocolVersion
                 /\ ret' = IF good THEN "nil" ELSE "error"
                 /\ rd' = r
                 /\ negFailed' = (negFailed \/ ~parsed.err.nil)
    /\ op' = "Negotiate"
    /\ verBefore' = ProtocolVersion
    /\ negFailedBefore' = negFailed
    /\ RunHistoryReset
    /\ UNCHANGED pc
    /\ UNCHANGED dvars

\* ------------------------------------------------------------------- Run

\* The data fields of test_helpers.FakeQuery, then "foo" as in the long Q of
\* AssertProtocolVersionNegotiation.
FakeFields == <<"example.com", "IN", "ANY", "-1", "127.0.0.2", "127.0.0.1", "127.0.0.3">>
FieldAt(i) == IF i <= Len(FakeFields) THEN <<FakeFields[i]>> ELSE <<"foo">>

\* A Q line of n data fields: kind 1 the fields of FakeQuery, kind 2 all fields
\* empty, kind 3 the fields of FakeQuery with a CR before the line terminator.
QLine(n, kind) ==
    <<"Q", TAB>>
      \o Join([i \in 1..n |-> IF kind = 2 THEN <<>> ELSE FieldAt(i)], TAB)
      \o (IF kind = 3 THEN <<CR>> ELSE <<>>) \o <<NL>>

QLines == {QLine(n, kind) : n \in 1..MaxFields, kind \in 1..3}
OtherLines ==
    {<<"Q", NL>>, <<"PING", NL>>, <<"PING", CR, NL>>, <<"PING", TAB, "foo", NL>>,
     <<"AXFR", NL>>, <<"AXFR", TAB, "example.com", NL>>, <<"GOGOGO", NL>>, <<NL>>,
     <<"q", TAB, "example.com", NL>>}
RequestLines == QLines \cup OtherLines

\* What a Callback may return.  The first reply is test_helpers.FakeResponse(3),
\* the second is built as dsl.Context.ReplyExtra builds one, the third carries
\* a line break and a record of its own in its content.
ResponseSet ==
    {Response(3, <<"24">>, <<"auth">>, <<"example.com">>, <<"IN">>, <<"ANY">>,
              <<"3600">>, <<"-1">>, <<"foo">>),
     Response(0, <<>>, <<>>, <<"example.com">>, <<"IN">>, <<"A">>,
              <<"3600">>, <<"-1">>, <<"1.2.3.4">>),
     Response(0, <<>>, <<>>, <<"example.com">>, <<"IN">>, <<"TXT">>,
              <<"3600">>, <<"-1">>, <<"foo", NL, "END">>)}
HandlerErrs == {NilErr, NewErr(<<"Test", NL, "error">>), NewErr(<<>>)}
HandlerResults ==
    {[responses |-> rs, err |-> e] : rs \in SeqsUpTo(ResponseSet, MaxReplies),
                                      e \in HandlerErrs}
NoResult == [responses |-> <<>>, err |-> NilErr]

\* What one pass of Run's switch yields.
Outcome(rs, e, wasCalled, q, panics) ==
    [responses |-> rs, err |-> e, called |-> wasCalled, q |-> q, panic |-> panics]

\* Backend.handleQ with the callback returning hr.
handleQ(version, data, hr) ==
    LET d == fromData(NewQuery(version), data)
    IN IF ~d.err.nil THEN Outcome(<<>>, d.err, FALSE, d.q, FALSE)
       ELSE Outcome(hr.responses, hr.err, TRUE, d.q, FALSE)

\* A plausible slip: AXFR left to the default branch of the switch.
handleAXFR_default == Outcome(<<>>, NewErr(<<"Bad command">>), FALSE, NewQuery(0), FALSE)

\* Backend.handleAXFR
handleAXFR == Outcome(<<>>, NewErr(<<"AXFR requests not supported">>), FALSE, NewQuery(0), FALSE)

\* Run, the request line without its terminator.
RunTrim(l) == TrimRight(l, {NL})

\* A plausible slip: PING handed to the callback like a query.
Dispatch_pingAsQ(version, l, hr) ==
    LET parts == SplitN2(RunTrim(l), TAB)
    IN CASE parts[1] \in {<<"Q">>, <<"PING">>} ->
              IF Len(parts) < 2 THEN Outcome(<<>>, NilErr, FALSE, NewQuery(0), TRUE)
              ELSE handleQ(version, parts[2], hr)
         [] parts[1] = <<"AXFR">> -> handleAXFR
         [] OTHER -> Outcome(<<>>, NewErr(<<"Bad command">>), FALSE, NewQuery(0), FALSE)

\* Run, from the line read to responses and err.  parts[1] of a line that holds
\* no tab does not exist: indexing it panics.
Dispatch(version, l, hr) ==
    LET parts == SplitN2(RunTrim(l), TAB)
    IN CASE parts[1] = <<"Q">> ->
              IF Len(parts) < 2 THEN Outcome(<<>>, NilErr, FALSE, NewQuery(0), TRUE)
              ELSE handleQ(version, parts[2], hr)
         [] parts[1] = <<"PING">> -> Outcome(<<>>, NilErr, FALSE, NewQuery(0), FALSE)
         [] parts[1] = <<"AXFR">> -> handleAXFR
         [] OTHER -> Outcome(<<>>, NewErr(<<"Bad command">>), FALSE, NewQuery(0), FALSE)

\* Whether Run invokes the callback for line l.
Calls(version, l) == Dispatch(version, l, NoResult).called

\* A plausible slip: the error text sent as it is.
CleanError_raw(e) == e.msg

\* Run, the error text with its line breaks flattened.
CleanError(e) == Replace(e.msg, NL, SP)

\* Run, the bytes written for a request that failed.
FailMessage(e) ==
    <<"LOG", TAB, "Error handling line: ">> \o CleanError(e) \o <<NL, "FAIL", NL>>

\* A plausible slip: a failed request ends the loop.
AfterFail_return == "returned"

\* Run, where the loop goes after a failed request was reported.
AfterFail == "next"

RunStart ==
    /\ pc = "idle"
    /\ pc' = "run"
    /\ op' = "Run"
    /\ ret' = "none"
    /\ rd' = ReadOk(<<>>)
    /\ verBefore' = ProtocolVersion
    /\ negFailedBefore' = negFailed
    /\ w' = [w EXCEPT !.out = <<>>]
    /\ RunHistoryReset
    /\ UNCHANGED <<ProtocolVersion, negFailed>>
    /\ UNCHANGED dvars

\* ReadString fails: Run returns, nil at end-of-stream.
RunReadEnd ==
    /\ pc = "run"
    /\ \E r \in ReadFailures :
         /\ rd' = r
         /\ ret' = IF r.err = "EOF" THEN "nil" ELSE "error"
    /\ pc' = "returned"
    /\ UNCHANGED <<ProtocolVersion, w, line, responses, err, idx, op, verBefore, negFailed,
                   negFailedBefore, called, hq, reqState, failedBefore>>
    /\ UNCHANGED dvars

\* ReadString yields a line: the switch, with the callback where it is called.
RunRead ==
    /\ pc = "run"
    /\ \E l \in RequestLines :
         \E hr \in IF Calls(ProtocolVersion, l) THEN HandlerResults ELSE {NoResult} :
           LET d == Dispatch(ProtocolVersion, l, hr)
           IN /\ rd' = ReadOk(l)
              /\ line' = l
              /\ responses' = d.responses
              /\ err' = d.err
              /\ called' = d.called
              /\ hq' = d.q
              /\ pc' = IF d.panic THEN "crashed" ELSE IF ~d.err.nil THEN "fail" ELSE "data"
              /\ reqState' = IF d.panic THEN "aborted" ELSE "pending"
    /\ idx' = 1
    /\ UNCHANGED <<ProtocolVersion, w, ret, op, verBefore, negFailed, negFailedBefore,
                   failedBefore>>
    /\ UNCHANGED dvars

\* The LOG and FAIL lines of a failed request.
RunFail ==
    /\ pc = "fail"
    /\ \E io \in IOChoices(w, FailMessage(err)) :
         LET w1 == WriteString(w, FailMessage(err), io.wok)
             w2 == IF w1.err THEN w1 ELSE Flush(w1, io.fok, io.k)
         IN /\ w' = w2
            /\ pc' = IF w2.err THEN "returned" ELSE AfterFail
            /\ ret' = IF w2.err THEN "error" ELSE ret
            /\ reqState' = IF w2.err THEN "aborted" ELSE "answered"
            /\ failedBefore' = (failedBefore \/ ~w2.err)
    /\ UNCHANGED <<ProtocolVersion, line, responses, err, idx, op, rd, verBefore, negFailed,
                   negFailedBefore, called, hq>>
    /\ UNCHANGED dvars

\* A plausible slip: the version the handler left in the reply is kept.
Stamp_keep(response, version) == response

\* Run, the reply stamped with the negotiated version.
Stamp(response, version) == [response EXCEPT !.ProtocolVersion = version]

\* A plausible slip: a failed write of a DATA line does not end the loop.
AfterData_goOn(failed) == "data"

\* Run, where the loop over responses goes after the write of a DATA line.
AfterData(failed) == IF failed THEN "returned" ELSE "data"

\* A plausible slip: the END line left in the buffer.
EndWrite_noFlush(wr, wok, fok, k) == WriteString(wr, <<"END", NL>>, wok)

\* Run, the writer after the END line and the flush.
EndWrite(wr, wok, fok, k) ==
    LET w1 == WriteString(wr, <<"END", NL>>, wok)
    IN IF w1.err THEN w1 ELSE Flush(w1, fok, k)

\* Run, the line written for one response, stamped with the negotiated version.
DataLine(response) ==
    LET d == Response_String(response)
    IN IF ~d.err.nil
       THEN <<"LOG", TAB, "Error serialising response: ">> \o d.err.msg \o <<NL>>
       ELSE d.s

\* One turn of the loop over responses.
RunData ==
    /\ pc = "data"
    /\ idx <= Len(responses)
    /\ \E wok \in BOOLEAN :
         LET stamped == Stamp(responses[idx], ProtocolVersion)
             w1 == WriteString(w, DataLine(stamped), wok)
         IN /\ responses' = [responses EXCEPT ![idx] = stamped]
            /\ w' = w1
            /\ pc' = AfterData(w1.err)
            /\ ret' = IF w1.err THEN "error" ELSE ret
            /\ reqState' = IF w1.err THEN "aborted" ELSE reqState
    /\ idx' = idx + 1
    /\ UNCHANGED <<ProtocolVersion, line, err, op, rd, verBefore, negFailed,
                   negFailedBefore, called, hq, failedBefore>>
    /\ UNCHANGED dvars

\* The END line, and the flush.
RunEnd ==
    /\ pc = "data"
    /\ idx > Len(responses)
    /\ \E io \in IOChoices(w, <<"END", NL>>) :
         LET w2 == EndWrite(w, io.wok, io.fok, io.k)
         IN /\ w' = w2
            /\ pc' = IF w2.err THEN "returned" ELSE "next"
            /\ ret' = IF w2.err THEN "error" ELSE ret
            /\ reqState' = IF w2.err THEN "aborted" ELSE "answered"
    /\ UNCHANGED <<ProtocolVersion, line, responses, err, idx, op, rd, verBefore, negFailed,
                   negFailedBefore, called, hq, failedBefore>>
    /\ UNCHANGED dvars

\* The end of one turn of Run's loop (the continue, or the end of the body): back
\* to ReadString.  Every branch of the switch assigns responses and err before
\* they are read, so what the last turn left in them is not kept.
RunLoop ==
    /\ pc = "next"
    /\ pc' = "run"
    /\ line' = <<>>
    /\ responses' = <<>>
    /\ err' = NilErr
    /\ idx' = 1
    /\ called' = FALSE
    /\ hq' = NewQuery(0)
    /\ reqState' = "none"
    /\ w' = [w EXCEPT !.out = <<>>]
    /\ UNCHANGED <<ProtocolVersion, ret, op, rd, verBefore, negFailed, negFailedBefore,
                   failedBefore>>
    /\ UNCHANGED dvars

\* Run has returned: its locals are gone, the engine is the caller's again.
RunReturn ==
    /\ pc = "returned"
    /\ pc' = "idle"
    /\ w' = [w EXCEPT !.out = <<>>]
    /\ RunHistoryReset
    /\ UNCHANGED <<ProtocolVersion, ret, op, rd, verBefore, negFailed, negFailedBefore>>
    /\ UNCHANGED dvars

\* ------------------------------------------------------ pipe/dsl/context.go

\* The Context that Lookup builds for query q.
NewContext(ttl, q) ==
    [DefaultTTL |-> ttl, Query |-> q, QType |-> <<>>, Matches |-> <<>>,
     Error |-> NilErr, Answers |-> <<>>]

\* A plausible slip: the type of the query instead of the active type.
ReplyExtra_queryType(c, qname, content, ttl) ==
    [c EXCEPT !.Answers =
        Append(@, Response(0, <<>>, <<>>, qname, c.Query.QClass, c.Query.QType,
                           Itoa(ttl), c.Query.Id, content))]

\* Context.ReplyExtra
ReplyExtra(c, qname, content, ttl) ==
    [c EXCEPT !.Answers =
        Append(@, Response(0, <<>>, <<>>, qname, c.Query.QClass, c.QType,
                           Itoa(ttl), c.Query.Id, content))]

\* Context.Reply
Reply(c, content) == ReplyExtra(c, c.Query.QName, content, c.DefaultTTL)

\* Context.ReplyTTL
ReplyTTL(c, content, ttl) == ReplyExtra(c, c.Query.QName, content, ttl)

\* ---------------------------------------------------------- pipe/dsl/dsl.go

\* NewWithTTL's ttl as New passes it.
DefaultTTL == 3600

\* A dsl.Callback is the list of what its body does to the Context, in order.
DoReply(content) == [do |-> "Reply", content |-> content, ttl |-> 0, qname |-> <<>>, msg |-> <<>>]
DoReplyTTL(content, ttl) ==
    [do |-> "ReplyTTL", content |-> content, ttl |-> ttl, qname |-> <<>>, msg |-> <<>>]
DoReplyExtra(qname, content, ttl) ==
    [do |-> "ReplyExtra", content |-> content, ttl |-> ttl, qname |-> qname, msg |-> <<>>]
DoError(msg) == [do |-> "Error", content |-> <<>>, ttl |-> 0, qname |-> <<>>, msg |-> msg]
DoMatches(m) == [do |-> "Matches", content |-> m, ttl |-> 0, qname |-> <<>>, msg |-> <<>>]

\* One statement of a callback's body.
Step(c, st) ==
    CASE st.do = "Reply" -> Reply(c, st.content)
      [] st.do = "ReplyTTL" -> ReplyTTL(c, st.content, st.ttl)
      [] st.do = "ReplyExtra" -> ReplyExtra(c, st.qname, st.content, st.ttl)
      [] st.do = "Error" -> [c EXCEPT !.Error = NewErr(st.msg)]
      [] st.do = "Matches" -> [c EXCEPT !.Matches = st.content]

RECURSIVE Call(_, _)
\* The call f(c) of a callback with body f.
Call(c, f) == IF Len(f) = 0 THEN c ELSE Call(Step(c, f[1]), Tail(f))

\* The handlers of the model: the A and NS callbacks of the package
\* documentation, the latter also overwriting c.Matches before it returns, and
\* its SSHFP callback, which sets c.Error between two replies.
HandlerA == <<DoReply(<<"169.254.0.1">>)>>
HandlerNS ==
    <<DoReply(<<"ns1.example.com">>), DoReplyTTL(<<"ns2.example.com">>, 0),
      DoMatches(<<<<"ns3.example.com">>>>)>>
HandlerSSHFP ==
    <<DoReply(<<"1 1 f1d2d2">>), DoError(<<"Don't use SSHFP on unsigned zones">>),
      DoReply(<<"1 2 e242ed">>)>>

\* The hooks given to Before: one that halts processing, one that adds a reply.
HookHalt == <<DoError(<<"halt">>)>>
HookExtra == <<DoReplyExtra(<<"hook.example.com">>, <<"seen">>, 60)>>
Hooks == {HookHalt, HookExtra}
NoCallback == [set |-> FALSE, body |-> <<>>]
SomeCallback(f) == [set |-> TRUE, body |-> f]

\* The patterns of the model and the query names they are matched against.
PatRoot == <<"^example\\.com$">>
PatAny == <<"(.*)">>
NameRoot == <<"example.com">>
NameWww == <<"www.example.com">>
Names == {NameRoot, NameWww}

\* regexp.FindStringSubmatch for the patterns of the model: the whole match and
\* the capture groups, or nil (the empty sequence) when there is no match.
FindStringSubmatch(re, name) ==
    CASE re = PatRoot -> IF name = NameRoot THEN <<name>> ELSE <<>>
      [] re = PatAny -> <<name, name>>

TypeA == <<"A">>
TypeMX == <<"MX">>
TypeANY == <<"ANY">>

\* The Register calls of the model.
Registrations ==
    {[qtype |-> TypeMX, re |-> PatAny, fn |-> HandlerA],
     [qtype |-> TypeMX, re |-> PatRoot, fn |-> HandlerSSHFP],
     [qtype |-> TypeMX, re |-> PatRoot, fn |-> HandlerNS],
     [qtype |-> TypeA, re |-> PatRoot, fn |-> HandlerA],
     [qtype |-> TypeA, re |-> PatAny, fn |-> HandlerNS],
     [qtype |-> TypeA, re |-> PatAny, fn |-> HandlerSSHFP]}

\* The queries given to Lookup: test_helpers.FakeQuery(1) with its name and type varied.
Queries ==
    {[NewQuery(1) EXCEPT !.QName = n, !.QClass = <<"IN">>, !.QType = t, !.Id = <<"-1">>,
                         !.RemoteIpAddress = <<"127.0.0.2">>] :
        n \in Names, t \in {TypeA, TypeMX, TypeANY}}

\* d.callbacks[qtype]: nil for a type that has no entry.
CallbacksOf(cbs, qtype) == IF qtype \in DOMAIN cbs THEN cbs[qtype] ELSE <<>>

\* A plausible slip: the type list kept sorted instead of in discovery order.
RegisterSort_sorted(sort, qtype) ==
    IF \E i \in 1..Len(sort) : sort[i] = qtype THEN sort
    ELSE IF qtype = TypeA THEN <<qtype>> \o sort ELSE Append(sort, qtype)

\* Register, the new d.qtypeSort.
RegisterSort(sort, qtype) ==
    IF \E i \in 1..Len(sort) : sort[i] = qtype THEN sort ELSE Append(sort, qtype)

\* Register, the new d.callbacks.  A node also carries the number of the
\* Register call that made it, which the code does not store.
RegisterNode(cbs, qtype, re, f, id) ==
    [t \in DOMAIN cbs \cup {qtype} |->
        IF t = qtype
        THEN Append(CallbacksOf(cbs, qtype), [matcher |-> re, fn |-> f, id |-> id])
        ELSE cbs[t]]

Register ==
    /\ Len(regLog) < MaxRegs
    /\ \E r \in Registrations :
         /\ qtypeSort' = RegisterSort(qtypeSort, r.qtype)
         /\ callbacks' = RegisterNode(callbacks, r.qtype, r.re, r.fn, Len(regLog) + 1)
         /\ regLog' = Append(regLog, r)
    /\ lk' = <<>>
    /\ UNCHANGED <<beforeCallback, beforeLog>>
    /\ UNCHANGED bvars

\* A plausible slip: a hook that is set is not replaced.
BeforeSet_keepFirst(old, f) == IF old.set THEN old ELSE SomeCallback(f)

\* Before, the new d.beforeCallback.
BeforeSet(old, f) == SomeCallback(f)

Before ==
    /\ \E f \in Hooks :
         /\ beforeCallback' = BeforeSet(beforeCallback, f)
         /\ beforeLog' = IF Len(beforeLog) = 0 THEN <<f>> ELSE <<beforeLog[Len(beforeLog)], f>>
    /\ lk' = <<>>
    /\ UNCHANGED <<callbacks, qtypeSort, regLog>>
    /\ UNCHANGED bvars

\* What is recorded of a pass: the Context, and the trace of what ran; an event
\* of the trace carries the callback body that was entered, if one was.
Event(kind, node, c, f) ==
    [kind |-> kind, id |-> node.id, qtype |-> c.QType, matches |-> c.Matches,
     error |-> c.Error, fn |-> f]

\* A plausible slip: c.Matches left as the callbacks leave it.
runNode_noRestore(hook, p, node) ==
    LET c == p.c
        matches == FindStringSubmatch(node.matcher, c.Query.QName)
        t0 == Append(p.trace, Event("attempt", node, c, <<>>))
    IN IF Len(matches) > 0
       THEN LET c1 == [c EXCEPT !.Matches = Tail(matches)]
                c2 == IF hook.set THEN Call(c1, hook.body) ELSE c1
                c3 == IF c2.Error.nil THEN Call(c2, node.fn) ELSE c2
                t1 == IF hook.set THEN Append(t0, Event("hook", node, c1, hook.body)) ELSE t0
                t2 == IF c2.Error.nil THEN Append(t1, Event("handler", node, c2, node.fn))
                      ELSE t1
            IN [c |-> c3, trace |-> Append(t2, Event("after", node, c3, <<>>))]
       ELSE [c |-> c, trace |-> Append(t0, Event("after", node, c, <<>>))]

\* DSL.runNode.  The trace gets "attempt" when the node is tried, "hook" and
\* "handler" when each is entered, and "after" when runNode returns.
runNode(hook, p, node) ==
    LET c == p.c
        matches == FindStringSubmatch(node.matcher, c.Query.QName)
        t0 == Append(p.trace, Event("attempt", node, c, <<>>))
    IN IF Len(matches) > 0
       THEN LET oldmatches == c.Matches
                c1 == [c EXCEPT !.Matches = Tail(matches)]
                c2 == IF hook.set THEN Call(c1, hook.body) ELSE c1
                c3 == IF c2.Error.nil THEN Call(c2, node.fn) ELSE c2
                c4 == [c3 EXCEPT !.Matches = oldmatches]
                t1 == IF hook.set THEN Append(t0, Event("hook", node, c1, hook.body)) ELSE t0
                t2 == IF c2.Error.nil THEN Append(t1, Event("handler", node, c2, node.fn))
                      ELSE t1
            IN [c |-> c4, trace |-> Append(t2, Event("after", node, c4, <<>>))]
       ELSE [c |-> c, trace |-> Append(t0, Event("after", node, c, <<>>))]

RECURSIVE LookupNodes_noStop(_, _, _, _)
\* A plausible slip: the loop goes on after a node has set the error.
LookupNodes_noStop(hook, p, nodes, i) ==
    IF i > Len(nodes) THEN p
    ELSE LookupNodes_noStop(hook, runNode(hook, p, nodes[i]), nodes, i + 1)

RECURSIVE LookupNodes(_, _, _, _)
\* Lookup, the loop over d.callbacks[qtype] from node i on.
LookupNodes(hook, p, nodes, i) ==
    IF i > Len(nodes) THEN p
    ELSE LET p1 == runNode(hook, p, nodes[i])
         IN IF ~p1.c.Error.nil THEN p1 ELSE LookupNodes(hook, p1, nodes, i + 1)

RECURSIVE LookupTypes(_, _, _, _, _)
\* Lookup, the loop over runOn from type j on.
LookupTypes(cbs, hook, p, runOn, j) ==
    IF j > Len(runOn) THEN p
    ELSE LET p0 == [p EXCEPT !.c.QType = runOn[j]]
             p1 == LookupNodes(hook, p0, CallbacksOf(cbs, runOn[j]), 1)
         IN IF ~p1.c.Error.nil THEN p1 ELSE LookupTypes(cbs, hook, p1, runOn, j + 1)

\* A plausible slip: every query run on all the types.
RunOn_all(sort, q) == sort

\* Lookup, the types the query is run on.
RunOn(sort, q) == IF q.QType = TypeANY THEN sort ELSE <<q.QType>>

\* A plausible slip: the replies gathered so far returned with the error.
LookupResult_partial(c) == [replies |-> c.Answers, err |-> c.Error]

\* Lookup, what it returns once the loops are over.
LookupResult(c) ==
    IF ~c.Error.nil THEN [replies |-> <<>>, err |-> c.Error]
    ELSE [replies |-> c.Answers, err |-> NilErr]

\* DSL.Lookup: the query, what is returned, and the trace of the pass.
LookupPass(cbs, sort, hook, ttl, q) ==
    LET p == LookupTypes(cbs, hook, [c |-> NewContext(ttl, q), trace |-> <<>>],
                         RunOn(sort, q), 1)
    IN [q |-> q, result |-> LookupResult(p.c), trace |-> p.trace]

Lookup ==
    /\ \E q \in Queries :
         lk' = <<LookupPass(callbacks, qtypeSort, beforeCallback, DefaultTTL, q)>>
    /\ UNCHANGED <<callbacks, qtypeSort, beforeCallback, regLog, beforeLog>>
    /\ UNCHANGED bvars

\* ------------------------------------------------------------ specification

InitBackend ==
    /\ ProtocolVersion = 0
    /\ w = [buf |-> <<>>, out |-> <<>>, err |-> FALSE]
    /\ pc = "idle"
    /\ line = <<>>
    /\ responses = <<>>
    /\ err = NilErr
    /\ idx = 1
    /\ ret = "none"
    /\ op = "none"
    /\ rd = ReadOk(<<>>)
    /\ verBefore = 0
    /\ negFailed = FALSE
    /\ negFailedBefore = FALSE
    /\ called = FALSE
    /\ hq = NewQuery(0)
    /\ reqState = "none"
    /\ failedBefore = FALSE

InitDSL ==
    /\ callbacks = <<>>
    /\ qtypeSort = <<>>
    /\ beforeCallback = NoCallback
    /\ regLog = <<>>
    /\ beforeLog = <<>>
    /\ lk = <<>>

Init == InitBackend /\ InitDSL

Next ==
    \/ Negotiate
    \/ RunStart
    \/ RunReadEnd
    \/ RunRead
    \/ RunFail
    \/ RunData
    \/ RunEnd
    \/ RunLoop
    \/ RunReturn

Spec == Init /\ [][Next]_vars

NextDSL ==
    \/ Register
    \/ Before
    \/ Lookup

SpecDSL == Init /\ [][NextDSL]_vars

\* ------------------------------------------------- what the claims speak of

IsPrefix(a, b) == Len(a) <= Len(b) /\ SubSeq(b, 1, Len(a)) = a

\* The lines of the bytes that reached the io.Writer for the current call or
\* request; the last element is what follows the last line terminator.
OutLines == Split(w.out, NL)

IsDataLine(l) == Len(l) >= 2 /\ l[1] = "DATA" /\ l[2] = TAB
IsErrorLogLine(l) == IsPrefix(<<"LOG", TAB, "Error handling line: ">>, l)

\* Zero or more DATA lines, then one END line, and nothing else.
EndBlock(ls) ==
    /\ Len(ls) >= 2
    /\ ls[Len(ls)] = <<>>
    /\ ls[Len(ls) - 1] = <<"END">>
    /\ \A i \in 1..(Len(ls) - 2) : IsDataLine(ls[i])

\* One LOG line, then one FAIL line, and nothing else.
FailBlock(ls) ==
    /\ Len(ls) = 3
    /\ ls[3] = <<>>
    /\ ls[2] = <<"FAIL">>
    /\ IsErrorLogLine(ls[1])

\* The command token of l is Q.
IsQCommand(l) == Len(l) >= 2 /\ l[1] = "Q" /\ l[2] \in {TAB, NL}

\* The number of tab-separated data fields after the command token of l.
DataFieldCount(l) == Cardinality({i \in 1..Len(l) : l[i] = TAB})

FieldCountMessage(v) ==
    CASE v = 1 -> "v1 query should have 5 data parts"
      [] v = 2 -> "v2 query should have 6 data parts"
      [] v = 3 -> "v3 query should have 7 data parts"

\* A request line has been read by the Run in progress.
InRequest == op = "Run" /\ reqState # "none"

\* C1: the bytes written for every request that Run read and answered are zero
\* or more DATA lines followed by exactly one END line, or exactly one
\* "LOG\tError handling line: ..." line followed by exactly one FAIL line.
C1_ResponseBlock ==
    (InRequest /\ reqState = "answered") => (EndBlock(OutLines) \/ FailBlock(OutLines))

\* C2: after negotiation at v, a Q line whose data is not exactly v+4 fields
\* never reaches the handler, is answered with exactly the LOG line naming v
\* and v+4 followed by FAIL, and Run goes on to the next line.
C2_WrongFieldCount ==
    (InRequest /\ ProtocolVersion \in 1..3 /\ IsQCommand(line)
       /\ DataFieldCount(line) # ProtocolVersion + 4)
      => /\ ~called
         /\ pc \in {"fail", "next", "returned"}
         /\ (pc = "returned" => w.err)
         /\ (pc = "next" =>
               w.out = <<"LOG", TAB, "Error handling line: ",
                         FieldCountMessage(ProtocolVersion), NL, "FAIL", NL>>)

\* C3: once the LOG and FAIL lines of a failed request are written and flushed,
\* Run is back at its read with the engine as it was before the request (the
\* negotiated version, an empty healthy writer), it has not returned, and a
\* Run that then reads end-of-stream returns nil.
C3_SessionSurvives ==
    [][/\ (pc = "fail" /\ ~w'.err) =>
             (pc' = "next" /\ reqState' = "answered" /\ ret' = "none"
                /\ ProtocolVersion' = ProtocolVersion /\ w'.buf = <<>>)
       /\ (pc = "next" /\ ~err.nil) =>
             (pc' = "run" /\ ProtocolVersion' = ProtocolVersion /\ w'.buf = <<>>
                /\ ~w'.err /\ ret' = "none")
       /\ (pc = "run" /\ failedBefore /\ pc' = "returned" /\ rd'.err = "EOF") =>
             ret' = "nil"
       /\ (pc = "run" /\ failedBefore /\ pc' \in {"fail", "data"}) =>
             (line' = rd'.data /\ ProtocolVersion' = verBefore)]_vars

C3_Witness == op = "Run" /\ failedBefore /\ pc = "next" /\ called /\ err.nil

\* C4: when the handler returned an error, nothing but the LOG line with the
\* error text on one line, followed by FAIL, is written for the request: no
\* reply the handler returned with the error reaches the output.
C4_HandlerErrorSuppressesReplies ==
    (InRequest /\ called /\ ~err.nil) =>
       LET flat == [i \in 1..Len(err.msg) |-> IF err.msg[i] = NL THEN SP ELSE err.msg[i]]
           expected == <<"LOG", TAB, "Error handling line: ">> \o flat \o <<NL, "FAIL", NL>>
       IN /\ IsPrefix(w.out \o w.buf, expected)
          /\ (reqState = "answered" =>
                /\ w.out = expected
                /\ Len(OutLines) = 3
                /\ OutLines[2] = <<"FAIL">>)

C4_Witness ==
    /\ InRequest /\ called /\ reqState = "answered"
    /\ Len(responses) = 2
    /\ err = NewErr(<<"Test", NL, "error">>)

\* The version a valid hello line asks for.
HelloVersion(l) ==
    CASE l[3] = "1" -> 1
      [] l[3] = "2" -> 2
      [] l[3] = "3" -> 3
      [] l[3] = "+" -> 2
      [] l[3] = "0" -> 3

Ack == <<"OK", TAB>> \o Banner \o <<NL>>

\* C5 as stated: Negotiate succeeds exactly when the line read is HELO and a
\* version in 1..3.
C5_SucceedsIffValidHello ==
    op = "Negotiate" =>
       /\ (ret = "nil") <=> (rd.err = "nil" /\ rd.data \in ValidHelloLines)
       /\ (ret = "nil") => (w.out = Ack /\ ProtocolVersion = HelloVersion(rd.data))

\* C5, amended: Negotiate succeeds exactly when the line read is HELO and a
\* version in 1..3 and the acknowledgement is written and flushed without
\* error; on success exactly "OK\t<banner>\n" has been written and flushed and
\* the version is stored.
C5_SucceedsIffValidHelloAndWritten ==
    op = "Negotiate" =>
       /\ (ret = "nil") <=> (rd.err = "nil" /\ rd.data \in ValidHelloLines /\ ~w.err)
       /\ (ret = "nil") =>
             (w.out = Ack /\ w.buf = <<>> /\ ProtocolVersion = HelloVersion(rd.data))
       /\ (ret # "nil") => ProtocolVersion = verBefore

C5_Witness ==
    /\ op = "Negotiate" /\ ret = "nil" /\ ProtocolVersion = 3
    /\ rd.data = <<"HELO", TAB, "0", "3", CR, NL>>

\* Negotiate rejected what it read, or could not read.
Rejected == rd.err # "nil" \/ rd.data \in InvalidHelloLines

\* C6 as stated: a Negotiate that rejects its line returns an error, writes
\* nothing and keeps the stored version; a later call that reads a valid hello
\* succeeds.
C6_FailedNegotiateThenRetry ==
    op = "Negotiate" =>
       /\ Rejected => (ret = "error" /\ w.out = <<>> /\ w.buf = <<>>
                         /\ ProtocolVersion = verBefore)
       /\ (negFailedBefore /\ ~Rejected) => ret = "nil"

\* C6, amended: ... a later call that reads a valid hello succeeds unless
\* writing or flushing its acknowledgement fails.
C6_FailedNegotiateThenRetryWritten ==
    op = "Negotiate" =>
       /\ Rejected => (ret = "error" /\ w.out = <<>> /\ w.buf = <<>>
                         /\ ProtocolVersion = verBefore)
       /\ (negFailedBefore /\ ~Rejected) => (ret = "nil" <=> ~w.err)
       /\ (negFailedBefore /\ ~Rejected /\ ~w.err) =>
             ProtocolVersion = HelloVersion(rd.data)

C6_Witness ==
    /\ op = "Negotiate" /\ negFailedBefore /\ ~Rejected /\ ret = "nil"
    /\ verBefore = 0 /\ ProtocolVersion = 2

\* l is a well-formed query line at version v.
WellFormedAt(l, v) ==
    /\ IsQCommand(l)
    /\ l[2] = TAB
    /\ l[Len(l)] = NL
    /\ DataFieldCount(l) = v + 4

\* C7: Run hands the handler the Query decoded from a well-formed line at the
\* negotiated version, and re-encoding that Query gives the line back exactly.
C7_RoundTrip ==
    (InRequest /\ ProtocolVersion \in 1..3 /\ WellFormedAt(line, ProtocolVersion))
      => /\ called
         /\ hq.ProtocolVersion = ProtocolVersion
         /\ Query_String(hq) = [s |-> line, err |-> NilErr]

C7_Witness ==
    InRequest /\ called /\ ProtocolVersion = 3 /\ line = QLine(7, 3)

\* ------------------------------------------------ the router's claims

Indices(n) == [i \in 1..n |-> i]

\* The numbers of the Register calls made for type t, in the order made.
RegsOfType(t) == SelectSeq(Indices(Len(regLog)), LAMBDA i : regLog[i].qtype = t)

RECURSIVE FirstSeenTypes(_)
\* The types of the Register calls of log, each where it first occurs.
FirstSeenTypes(log) ==
    IF Len(log) = 0 THEN <<>>
    ELSE LET front == FirstSeenTypes(SubSeq(log, 1, Len(log) - 1))
             t == log[Len(log)].qtype
         IN IF \E i \in 1..Len(front) : front[i] = t THEN front ELSE Append(front, t)

RECURSIVE RegsByTypes(_)
\* The Register calls grouped by type, the types in the order given.
RegsByTypes(types) ==
    IF Len(types) = 0 THEN <<>> ELSE RegsOfType(types[1]) \o RegsByTypes(Tail(types))

LookupDone == Len(lk) = 1
LastQuery == lk[1].q
LastResult == lk[1].result
LastTrace == lk[1].trace

\* The registrations for which the trace of the last Lookup has an event of this kind.
TraceIds(kind) ==
    LET evs == SelectSeq(LastTrace, LAMBDA e : e.kind = kind)
    IN [i \in 1..Len(evs) |-> evs[i].id]

\* The pattern of Register call i matches the name of the last query.
Matching(i) == Len(FindStringSubmatch(regLog[i].re, LastQuery.QName)) > 0

\* The contents a callback body adds, in order.
ContentsOf(f) ==
    LET rs == SelectSeq(f, LAMBDA st : st.do \in {"Reply", "ReplyTTL", "ReplyExtra"})
    IN [i \in 1..Len(rs) |-> rs[i].content]

RECURSIVE ContentsAdded(_)
\* The contents added when the hook and the handler of each of ids run to the end.
ContentsAdded(ids) ==
    IF Len(ids) = 0 THEN <<>>
    ELSE (IF beforeCallback.set THEN ContentsOf(beforeCallback.body) ELSE <<>>)
           \o ContentsOf(regLog[ids[1]].fn) \o ContentsAdded(Tail(ids))

ReturnedContents == [i \in 1..Len(LastResult.replies) |-> LastResult.replies[i].Content]

\* C8 as stated: a query of a type T other than ANY has exactly the handlers
\* registered under T attempted, in registration order, those whose pattern
\* matches invoked, and the replies returned in the order they were added.
C8_ExactlyTheHandlersOfType ==
    (LookupDone /\ LastQuery.QType # TypeANY) =>
       LET regs == RegsOfType(LastQuery.QType)
       IN /\ TraceIds("attempt") = regs
          /\ TraceIds("handler") = SelectSeq(regs, Matching)
          /\ LastResult.err.nil => ReturnedContents = ContentsAdded(SelectSeq(regs, Matching))

\* C8, amended: only the handlers registered under T are attempted, in
\* registration order, and those whose pattern matches are invoked; all of them
\* unless the hook or a handler sets the error, which ends the pass; when no
\* error is set the replies are returned in the order they were added.
C8_HandlersOfTypeInOrder ==
    (LookupDone /\ LastQuery.QType # TypeANY) =>
       LET regs == RegsOfType(LastQuery.QType)
           att == TraceIds("attempt")
           run == TraceIds("handler")
       IN /\ IsPrefix(att, regs)
          /\ IsPrefix(run, SelectSeq(att, Matching))
          /\ IsPrefix(SelectSeq(SubSeq(att, 1, Len(att) - 1), Matching), run)
          /\ \A i \in 1..Len(LastTrace) : LastTrace[i].qtype = LastQuery.QType
          /\ LastResult.err.nil =>
                /\ att = regs
                /\ run = SelectSeq(regs, Matching)
                /\ ReturnedContents = ContentsAdded(run)

C8_Witness ==
    /\ LookupDone /\ LastQuery.QType = TypeA /\ LastResult.err.nil
    /\ TraceIds("attempt") = <<1, 3>>
    /\ TraceIds("handler") = <<3>>
    /\ Len(regLog) = 3 /\ regLog[2].qtype = TypeMX

\* C9: a query of type ANY runs the handlers type by type, the types in the
\* order in which each was first registered and the handlers of a type in
\* registration order; the type order is fixed by the first Register call of
\* each type, whatever is registered afterwards.
C9_AnyInDiscoveryOrder ==
    /\ qtypeSort = FirstSeenTypes(regLog)
    /\ (LookupDone /\ LastQuery.QType = TypeANY) =>
          LET expected == RegsByTypes(FirstSeenTypes(regLog))
              att == TraceIds("attempt")
          IN /\ IsPrefix(att, expected)
             /\ IsPrefix(TraceIds("handler"), SelectSeq(att, Matching))
             /\ LastResult.err.nil =>
                   (att = expected /\ TraceIds("handler") = SelectSeq(expected, Matching))

C9_Witness ==
    /\ LookupDone /\ LastQuery.QType = TypeANY /\ LastResult.err.nil
    /\ qtypeSort = <<TypeMX, TypeA>>
    /\ TraceIds("handler") = <<1, 3, 2>>

\* C10: when the hook or a handler leaves the error set, Lookup returns that
\* error and no reply, and nothing runs after the registration that set it.
C10_ErrorOnly ==
    LookupDone =>
       LET errAt == {i \in 1..Len(LastTrace) :
                        LastTrace[i].kind = "after" /\ ~LastTrace[i].error.nil}
       IN /\ errAt # {} =>
                /\ errAt = {Len(LastTrace)}
                /\ LastResult.err = LastTrace[Len(LastTrace)].error
                /\ LastResult.replies = <<>>
          /\ errAt = {} => LastResult.err.nil

C10_Witness ==
    /\ LookupDone /\ ~LastResult.err.nil
    /\ TraceIds("handler") = <<1, 2>>
    /\ TraceIds("attempt") = <<1, 2>>
    /\ Len(RegsOfType(LastQuery.QType)) = 3

\* The kinds of the events of the last trace from position i on, n of them.
KindsFrom(i, n) == [k \in 1..n |-> LastTrace[i + k - 1].kind]

\* The callback body holds a statement that sets c.Error.
SetsError(f) == \E i \in 1..Len(f) : f[i].do = "Error"

\* The hook of the last Before call, if there was one.
LastHook == beforeLog[Len(beforeLog)]

\* What runNode is to do for registration n: the hook if one is set and the
\* pattern matches, the handler if the pattern matches and the hook left the
\* error unset.
ExpectedKinds(n) ==
    <<"attempt">>
      \o (IF Matching(n) /\ Len(beforeLog) > 0 THEN <<"hook">> ELSE <<>>)
      \o (IF Matching(n) /\ ~(Len(beforeLog) > 0 /\ SetsError(LastHook))
          THEN <<"handler">> ELSE <<>>)
      \o <<"after">>

C12_HookOnEveryRequest ==
    (LookupDone /\ Len(beforeLog) > 0) => Len(TraceIds("hook")) >= 1

\* The decimal text of the TTLs of the model.
TTLText(n) ==
    CASE n = 0 -> <<"0">>
      [] n = 60 -> <<"6", "0">>
      [] n = 3600 -> <<"3", "6", "0", "0">>

\* The reply that statement st of a callback adds while registration n runs.
ReplyOf(st, n) ==
    [ProtocolVersion |-> 0, ScopeBits |-> <<>>, Auth |-> <<>>,
     QName |-> IF st.do = "ReplyExtra" THEN st.qname ELSE LastQuery.QName,
     QClass |-> LastQuery.QClass,
     QType |-> regLog[n].qtype,
     TTL |-> IF st.do = "Reply" THEN TTLText(3600) ELSE TTLText(st.ttl),
     Id |-> LastQuery.Id,
     Content |-> st.content]

\* The replies that the statements of f add while registration n runs.
RepliesOf(f, n) ==
    LET rs == SelectSeq(f, LAMBDA st : st.do \in {"Reply", "ReplyTTL", "ReplyExtra"})
    IN [i \in 1..Len(rs) |-> ReplyOf(rs[i], n)]

RECURSIVE RepliesOfTrace(_)
\* The replies added by the hooks and handlers entered in trace t.
RepliesOfTrace(t) ==
    IF Len(t) = 0 THEN <<>>
    ELSE (IF t[1].kind \in {"hook", "handler"} THEN RepliesOf(t[1].fn, t[1].id) ELSE <<>>)
           \o RepliesOfTrace(Tail(t))

\* C13: a reply added with Reply carries the name, class and id of the query,
\* the default TTL, and the type under which the running handler was
\* registered, also when the query is of type ANY; ReplyTTL and ReplyExtra
\* differ only in the TTL and the name they are given.
C13_ReplyFields ==
    (LookupDone /\ LastResult.err.nil) => LastResult.replies = RepliesOfTrace(LastTrace)

C13_Witness ==
    /\ LookupDone /\ LastResult.err.nil /\ LastQuery.QType = TypeANY
    /\ \E i \in 1..Len(LastResult.replies) :
          LastResult.replies[i] = Response(0, <<>>, <<>>, NameWww, <<"IN">>, TypeMX,
                                           <<"3", "6", "0", "0">>, <<"-1">>, <<"169.254.0.1">>)
    /\ \E i \in 1..Len(LastResult.replies) :
          /\ LastResult.replies[i].QType = TypeA
          /\ LastResult.replies[i].TTL = <<"0">>
    /\ \E i \in 1..Len(LastResult.replies) :
          /\ LastResult.replies[i].QName = <<"hook.example.com">>
          /\ LastResult.replies[i].TTL = <<"6", "0">>

\* ------------------------------------------- the engine's claims, continued

\* The command token of a request line: what stands before its first tab, or
\* before its line terminator when it holds no tab.
CommandToken(l) ==
    LET cut == {i \in 1..Len(l) : l[i] \in {TAB, NL}}
    IN IF cut = {} THEN l
       ELSE SubSeq(l, 1, (CHOOSE i \in cut : \A j \in cut : i <= j) - 1)

\* C14: at every negotiated version a PING line never reaches the handler and
\* is answered with no DATA line and exactly one END line.
C14_Ping ==
    (InRequest /\ ProtocolVersion \in 1..3 /\ CommandToken(line) = <<"PING">>) =>
       /\ ~called
       /\ pc \notin {"crashed", "fail"}
       /\ IsPrefix(w.out \o w.buf, <<"END", NL>>)
       /\ reqState = "answered" => w.out = <<"END", NL>>

C14_Witness ==
    /\ InRequest /\ ProtocolVersion = 2 /\ reqState = "answered"
    /\ line = <<"PING", TAB, "foo", NL>>

\* C15: a line whose command token is neither Q nor PING never reaches the
\* handler and is answered with exactly one LOG line and one FAIL line; the
\* message is "AXFR requests not supported" for AXFR and "Bad command" for
\* every other token.
C15_OtherCommands ==
    (InRequest /\ CommandToken(line) \notin {<<"Q">>, <<"PING">>}) =>
       LET msg == IF CommandToken(line) = <<"AXFR">> THEN "AXFR requests not supported"
                  ELSE "Bad command"
           expected == <<"LOG", TAB, "Error handling line: ", msg, NL, "FAIL", NL>>
       IN /\ ~called
          /\ pc \notin {"crashed", "data"}
          /\ IsPrefix(w.out \o w.buf, expected)
          /\ reqState = "answered" => w.out = expected

C15_Witness ==
    /\ InRequest /\ reqState = "answered"
    /\ line = <<"AXFR", TAB, "example.com", NL>>
    /\ failedBefore

\* C16: Run stops in two ways only: it returns nil when a read hits
\* end-of-stream, or an error when a write or a flush fails; it neither returns
\* for another reason nor terminates abnormally.
C16_StopsOnlyTwoWays ==
    op = "Run" =>
       /\ pc # "crashed"
       /\ pc = "returned" =>
             \/ (ret = "nil" /\ rd.err = "EOF")
             \/ (ret = "error" /\ rd.err = "nil" /\ w.err)

\* C17: every record on the wire has the number of fields of the negotiated
\* version and is one line: a query handed to the handler has v+4 data fields,
\* and the answer to it is one line of 6 fields (8 at v3) per reply, then END.
C17_OneRecordPerLine ==
    (InRequest /\ ProtocolVersion \in 1..3 /\ called) =>
       /\ DataFieldCount(line) = ProtocolVersion + 4
       /\ (reqState = "answered" /\ err.nil) =>
             /\ Len(OutLines) = Len(responses) + 2
             /\ \A i \in 1..Len(responses) :
                   /\ i <= Len(OutLines)
                   /\ IsDataLine(OutLines[i])
                   /\ Len(Split(OutLines[i], TAB))
                        = 1 + (IF ProtocolVersion = 3 THEN 8 ELSE 6)

\* C18: a write or a flush that fails in Run makes Run return an error at
\* once: no further line is read, the handler is not invoked again and nothing
\* more is written.
C18_WriteFailureAborts ==
    [][/\ (pc \in {"fail", "data"} /\ w'.err) =>
             (pc' = "returned" /\ ret' = "error" /\ reqState' = "aborted"
                /\ w'.buf = <<>> /\ rd' = rd /\ called' = called)
       /\ (pc \in {"fail", "data"} /\ pc' = "returned") => w'.err
       /\ (pc = "returned") =>
             (pc' = "idle" /\ rd' = rd /\ ret' = ret /\ ~called'
                /\ w'.buf = w.buf /\ w'.err = w.err /\ w'.out = <<>>)]_vars

C18_Witness ==
    /\ op = "Run" /\ pc = "returned" /\ ret = "error" /\ w.err
    /\ called /\ Len(responses) = 2 /\ idx = 2

\* The bytes of one reply in the layout of version v.
Layout(r, v) ==
    <<"DATA", TAB>>
      \o (IF v = 3 THEN r.ScopeBits \o <<TAB>> \o r.Auth \o <<TAB>> ELSE <<>>)
      \o r.QName \o <<TAB>> \o r.QClass \o <<TAB>> \o r.QType \o <<TAB>> \o r.TTL
      \o <<TAB>> \o r.Id \o <<TAB>> \o r.Content \o <<NL>>

RECURSIVE LayoutAll(_, _)
LayoutAll(rs, v) == IF Len(rs) = 0 THEN <<>> ELSE Layout(rs[1], v) \o LayoutAll(Tail(rs), v)

\* C19: what Run writes for each reply is DATA and the fields name, class, type,
\* TTL, id, content, with scope-bits and auth before them at v3, in the layout
\* of the negotiated version whatever version the handler left in the reply.
C19_NegotiatedLayout ==
    (InRequest /\ ProtocolVersion \in 1..3 /\ err.nil /\ pc \in {"data", "next", "returned"}) =>
       LET written == w.out \o w.buf
           done == LayoutAll(SubSeq(responses, 1, idx - 1), ProtocolVersion)
       IN /\ IsPrefix(written, done \o <<"END", NL>>)
          /\ (pc = "data" /\ ~w.err) => written = done
          /\ pc = "next" => written = done \o <<"END", NL>>

C19_Witness ==
    /\ InRequest /\ ProtocolVersion = 1 /\ reqState = "answered"
    /\ Len(responses) = 2
    /\ responses[1].ScopeBits = <<"24">>
    /\ w.out = <<"DATA", TAB, "example.com", TAB, "IN", TAB, "ANY", TAB, "3600", TAB, "-1",
                 TAB, "foo", NL,
                 "DATA", TAB, "example.com", TAB, "IN", TAB, "A", TAB, "3600", TAB, "-1",
                 TAB, "1.2.3.4", NL,
                 "END", NL>>

\* The response block of the request in hand.
Block ==
    IF err.nil THEN LayoutAll(responses, ProtocolVersion) \o <<"END", NL>>
    ELSE FailMessage(err)

\* C20: Run handles one request at a time, in the order read: a line is read,
\* and the handler invoked, only when no request is in hand and nothing is left
\* to flush, and when Run moves on to the next line exactly the response block
\* of the request in hand has been written and flushed.
C20_OneAtATime ==
    [][/\ (pc = "run" /\ pc' \in {"fail", "data", "crashed"}) =>
             (reqState = "none" /\ ~called /\ w.buf = <<>> /\ w.out = <<>>)
       /\ (called' /\ ~called) => (pc = "run" /\ reqState = "none" /\ line' = rd'.data)
       /\ (pc' = "next") =>
             (reqState' = "answered" /\ ~w'.err /\ w'.buf = <<>> /\ w'.out = Block')
       /\ (pc = "next") => (pc' = "run" /\ rd' = rd /\ rd.data = line)]_vars

C20_Witness ==
    /\ op = "Run" /\ failedBefore /\ pc = "data" /\ called
    /\ Len(responses) = 2 /\ idx = 2
    /\ w.out = <<>> /\ w.buf # <<>>

\* ------------------------------------------- the router's claims, continued

\* The capture groups of the patterns of the model against a name they match.
Groups(re, name) == IF re = PatAny THEN <<name>> ELSE <<>>

\* The position of the "after" event that closes the attempt at position i.
AfterOf(i) == CHOOSE k \in i..Len(LastTrace) :
                 /\ LastTrace[k].kind = "after"
                 /\ \A j \in i..(k - 1) : LastTrace[j].kind # "after"

\* C21: the hook and the matched handler are entered with the capture groups of
\* the matching pattern against the query name, the whole match left out, and
\* when runNode returns, match or no match, error or no error, the capture
\* groups of the context are what they were before the attempt.
C21_CaptureGroups ==
    LookupDone =>
       \A i \in 1..Len(LastTrace) :
          /\ LastTrace[i].kind \in {"hook", "handler"} =>
                LastTrace[i].matches = Groups(regLog[LastTrace[i].id].re, LastQuery.QName)
          /\ LastTrace[i].kind = "attempt" =>
                /\ \E k \in i..Len(LastTrace) : LastTrace[k].kind = "after"
                /\ LastTrace[AfterOf(i)].id = LastTrace[i].id
                /\ LastTrace[AfterOf(i)].matches = LastTrace[i].matches
                /\ LastTrace[i].matches = <<>>

C21_Witness ==
    /\ LookupDone /\ LastQuery.QName = NameWww
    /\ Len(beforeLog) > 0 /\ LastHook = HookExtra
    /\ \E i \in 1..Len(LastTrace) :
          /\ LastTrace[i].kind = "handler"
          /\ LastTrace[i].fn = HandlerNS
          /\ LastTrace[i].matches = <<NameWww>>
    /\ \E i \in 1..Len(LastTrace) :
          /\ LastTrace[i].kind = "after"
          /\ ~LastTrace[i].error.nil
    /\ \E i \in 1..Len(LastTrace) :
          /\ LastTrace[i].kind = "attempt"
          /\ ~Matching(LastTrace[i].id)

\* C22: whenever the hook is entered the error of the context is unset: the
\* pass ends at the first registration after which the error is set.
C22_HookSeesNoError ==
    LookupDone =>
       \A i \in 1..Len(LastTrace) :
          /\ LastTrace[i].kind = "hook" => LastTrace[i].error.nil
          /\ (LastTrace[i].kind = "after" /\ ~LastTrace[i].error.nil) => i = Len(LastTrace)

C22_Witness ==
    /\ LookupDone
    /\ TraceIds("hook") = <<1, 2>>
    /\ TraceIds("attempt") = <<1, 2>>
    /\ ~LastResult.err.nil
    /\ Len(RegsOfType(LastQuery.QType)) = 3

\* C23: in a Run on an engine whose stored version is unset the handler is
\* never invoked and no DATA line is written: every Q line is answered with
\* LOG and FAIL, the message that of an unknown protocol version, and PING with
\* END; the stored version is always unset (0) or in 1..3.
C23_Unnegotiated ==
    /\ ProtocolVersion \in 0..3
    /\ (InRequest /\ ProtocolVersion = 0) =>
          /\ ~called
          /\ \A i \in 1..Len(w.out \o w.buf) : (w.out \o w.buf)[i] # "DATA"
          /\ CommandToken(line) = <<"Q">> =>
                /\ pc \in {"fail", "next", "returned"}
                /\ pc = "returned" => w.err
                /\ pc = "next" =>
                      w.out = <<"LOG", TAB, "Error handling line: ",
                                "Unknown protocol version in query", NL, "FAIL", NL>>
          /\ CommandToken(line) = <<"PING">> =>
                /\ pc \in {"data", "next", "returned"}
                /\ pc = "returned" => w.err
                /\ pc = "next" => w.out = <<"END", NL>>

====
